---- MODULE Spec2Model ----
(***************************************************************************)
(* Model of nanobot/agent/inbox.py: InboxAgentLoop, the deterministic      *)
(* message-to-Obsidian router.                                             *)
(*                                                                         *)
(* A Python str is modelled as a sequence of one-character strings, so     *)
(* that lower(), strip(), split(), slicing, re.search and re.sub act on    *)
(* characters as they do in the code.  A character outside the Basic       *)
(* Multilingual Plane (the emoji of OUTPUT_CONFIG) is written as its code  *)
(* point, "U+1F4A1": still one element of the sequence.                    *)
(***************************************************************************)
EXTENDS Integers, Sequences, FiniteSets, TLC

VARIABLES
    inbox_chat_ids,   \* self.inbox_chat_ids
    obsidian_root,    \* self.obsidian_root, a path: sequence of components
    day_cutoff_hour,  \* self.day_cutoff_hour
    dirs,             \* the file system: set of existing directories
    files,            \* the file system: path -> content of each existing file
    log,              \* loguru sink: sequence of entries written by logger.info
    tasks,            \* one record per asynchronous _process_message task
    baseCalls,        \* calls received by AgentLoop._process_message
    writes,           \* history: the calls of _write_to_obsidian, in call order
    files0,           \* history: the files of the vault at construction
    arg,              \* input of the pure-function specifications
    ret               \* output of the pure-function specifications

vars == <<inbox_chat_ids, obsidian_root, day_cutoff_hour, dirs, files, log,
          tasks, baseCalls, writes, files0, arg, ret>>

mainVars == <<inbox_chat_ids, obsidian_root, day_cutoff_hour, dirs, files, log,
              tasks, baseCalls, writes, files0>>

-----------------------------------------------------------------------------
(* Characters and the str methods the code uses.                           *)

LowerAlpha ==
    <<"a","b","c","d","e","f","g","h","i","j","k","l","m","n","o","p","q",
      "r","s","t","u","v","w","x","y","z","ä","ö","ü">>

UpperAlpha ==
    <<"A","B","C","D","E","F","G","H","I","J","K","L","M","N","O","P","Q",
      "R","S","T","U","V","W","X","Y","Z","Ä","Ö","Ü">>

DigitChars == <<"0","1","2","3","4","5","6","7","8","9">>

Range(s) == {s[i] : i \in DOMAIN s}

\* str.isspace() / regex \s
SpaceChars == {" ", "\t", "\n", "\r", "\f"}
IsSpace(c) == c \in SpaceChars

\* regex \w (Unicode): letters, digits and the underscore
WordChars == Range(LowerAlpha) \cup Range(UpperAlpha) \cup Range(DigitChars) \cup {"_"}
IsWord(c) == c \in WordChars

ToLower == [c \in Range(UpperAlpha) |->
               LowerAlpha[CHOOSE i \in DOMAIN UpperAlpha : UpperAlpha[i] = c]]
ToUpper == [c \in Range(LowerAlpha) |->
               UpperAlpha[CHOOSE i \in DOMAIN LowerAlpha : LowerAlpha[i] = c]]

LowerChar(c) == IF c \in DOMAIN ToLower THEN ToLower[c] ELSE c

UpperChar(c) == IF c \in DOMAIN ToUpper THEN ToUpper[c] ELSE c

\* str.lower()
lower(s) == [i \in DOMAIN s |-> LowerChar(s[i])]

\* str.capitalize(): first character upper-cased, the rest lower-cased
capitalize(s) == [i \in DOMAIN s |-> IF i = 1 THEN UpperChar(s[i]) ELSE LowerChar(s[i])]

\* s[:n]
Take(s, n) == SubSeq(s, 1, IF Len(s) < n THEN Len(s) ELSE n)

\* str.lstrip(), str.rstrip(), str.strip(): drop leading and trailing whitespace
RECURSIVE lstrip(_)
lstrip(s) == IF s # <<>> /\ IsSpace(s[1]) THEN lstrip(Tail(s)) ELSE s

RECURSIVE rstrip(_)
rstrip(s) == IF s # <<>> /\ IsSpace(s[Len(s)]) THEN rstrip(SubSeq(s, 1, Len(s) - 1)) ELSE s

strip(s) == rstrip(lstrip(s))

\* s.split("\n")[0]: everything before the first newline
RECURSIVE UpToNewline(_, _)
UpToNewline(s, i) ==
    IF i > Len(s) THEN s
    ELSE IF s[i] = "\n" THEN SubSeq(s, 1, i - 1)
    ELSE UpToNewline(s, i + 1)

FirstLine(s) == UpToNewline(s, 1)

\* re.sub(r'[^\w\s-]', '', s)
IsSafeChar(c) == IsWord(c) \/ IsSpace(c) \/ c = "-"
StripUnsafe(s) == SelectSeq(s, IsSafeChar)

RECURSIVE Flatten(_)
Flatten(ss) == IF ss = <<>> THEN <<>> ELSE Head(ss) \o Flatten(Tail(ss))

-----------------------------------------------------------------------------
(* Intent classification.                                                  *)

None == "None"

\* The patterns are all of the shape \b<literal>\b; each is held as its literal.
KEYWORD_PATTERNS ==
    << [intent |-> "journal", patterns |->
          << <<"h","e","u","t","e">>, <<"t","a","g">>, <<"e","r","l","e","b","t">>,
             <<"g","e","m","a","c","h","t">>, <<"m","o","r","g","e","n","s">>,
             <<"a","b","e","n","d","s">>, <<"g","e","s","t","e","r","n">>,
             <<"w","a","r">> >>],
       [intent |-> "ideen", patterns |->
          << <<"i","d","e","e">>, <<"k","ö","n","n","t","e">>,
             <<"p","r","o","j","e","k","t">>, <<"w","a","s"," ","w","ä","r","e">> >>],
       [intent |-> "reflexion", patterns |->
          << <<"d","e","n","k","e">>, <<"f","r","a","g","e"," ","m","i","c","h">>,
             <<"w","a","r","u","m">>, <<"b","e","d","e","u","t","e","t">>,
             <<"f","ü","h","l","e">> >>] >>

\* regex \b before position k of text (k in 1..Len+1): exactly one of the
\* characters on its two sides is a word character; the ends count as non-word
WordBoundary(text, k) ==
    LET before == k > 1 /\ IsWord(text[k - 1])
        after  == k <= Len(text) /\ IsWord(text[k])
    IN  before # after

\* re.search(r"\b<literal>\b", text): a match anywhere in text
re_search(literal, text) ==
    \E i \in 1..(Len(text) - Len(literal) + 1) :
        /\ SubSeq(text, i, i + Len(literal) - 1) = literal
        /\ WordBoundary(text, i)
        /\ WordBoundary(text, i + Len(literal))

\* the inner loop: for pattern in patterns: if re.search(...)
RECURSIVE AnyPattern(_, _, _)
AnyPattern(patterns, j, text_lower) ==
    IF j > Len(patterns) THEN FALSE
    ELSE IF re_search(patterns[j], text_lower) THEN TRUE
    ELSE AnyPattern(patterns, j + 1, text_lower)

\* the outer loop from the k-th item of the table on, in the given table order
RECURSIVE ScanIntents(_, _, _)
ScanIntents(table, k, text_lower) ==
    IF k > Len(table) THEN None
    ELSE IF AnyPattern(table[k].patterns, 1, text_lower) THEN table[k].intent
    ELSE ScanIntents(table, k + 1, text_lower)

Reverse(s) == [i \in DOMAIN s |-> s[Len(s) + 1 - i]]

\* faulty variant: the table scanned from its last item to its first
_classify_reversed(text) == ScanIntents(Reverse(KEYWORD_PATTERNS), 1, lower(text))

_classify(text) == ScanIntents(KEYWORD_PATTERNS, 1, lower(text))

-----------------------------------------------------------------------------
(* Title derivation.                                                       *)

FirstLineCut == 50
TitleCut == 40
Notiz == <<"n","o","t","i","z">>

_safe_title(text) ==
    LET first_line == Take(FirstLine(strip(text)), FirstLineCut)
        safe       == strip(StripUnsafe(first_line))
    IN  IF Take(safe, TitleCut) # <<>> THEN Take(safe, TitleCut) ELSE Notiz

-----------------------------------------------------------------------------
(* datetime: the fields of a naive datetime, and the arithmetic of         *)
(* "now -= timedelta(days=1)" (proleptic Gregorian ordinals).              *)

_is_leap(y) == y % 4 = 0 /\ (y % 100 # 0 \/ y % 400 = 0)

_days_in_month(y, m) ==
    IF m = 2 THEN (IF _is_leap(y) THEN 29 ELSE 28)
    ELSE IF m \in {4, 6, 9, 11} THEN 30 ELSE 31

_days_before_year(y) ==
    (y - 1) * 365 + (y - 1) \div 4 - (y - 1) \div 100 + (y - 1) \div 400

RECURSIVE _days_before_month(_, _)
_days_before_month(y, m) ==
    IF m = 1 THEN 0 ELSE _days_before_month(y, m - 1) + _days_in_month(y, m - 1)

\* date.toordinal()
_ymd2ord(y, m, d) == _days_before_year(y) + _days_before_month(y, m) + d

\* date.fromordinal(n): the year, month and day whose ordinal is n
YearOfOrdinal(n) ==
    CHOOSE c \in (n \div 366)..(n \div 365 + 1) :
        _days_before_year(c) < n /\ n <= _days_before_year(c + 1)

MonthOfDay(y, r) ==
    CHOOSE c \in 1..12 :
        _days_before_month(y, c) < r /\ r <= _days_before_month(y, c) + _days_in_month(y, c)

DateInYear(y, m, r) == [year |-> y, month |-> m, day |-> r - _days_before_month(y, m)]

DateOfYearDay(y, r) == DateInYear(y, MonthOfDay(y, r), r)

DateOfOrdinalIn(y, n) == DateOfYearDay(y, n - _days_before_year(y))

_ord2ymd(n) == DateOfOrdinalIn(YearOfOrdinal(n), n)

WithDate(dt, d) == [dt EXCEPT !.year = d.year, !.month = d.month, !.day = d.day]

\* dt - timedelta(days=1): the date goes back one ordinal, the time of day stays
MinusOneDay(dt) == WithDate(dt, _ord2ymd(_ymd2ord(dt.year, dt.month, dt.day) - 1))

\* faulty variant: the cutoff hour itself still belongs to the previous day
_effective_date_inclusive(clock, cutoff) ==
    IF clock.hour <= cutoff THEN MinusOneDay(clock) ELSE clock

\* clock is the value of datetime.now()
_effective_date(clock, cutoff) ==
    IF clock.hour < cutoff THEN MinusOneDay(clock) ELSE clock

\* str(n) for n >= 0
RECURSIVE Dec(_)
Dec(n) == IF n < 10 THEN <<DigitChars[n + 1]>>
          ELSE Dec(n \div 10) \o <<DigitChars[(n % 10) + 1]>>

\* 10 ** k
RECURSIVE Pow10(_)
Pow10(k) == IF k = 0 THEN 1 ELSE 10 * Pow10(k - 1)

\* zero-padded decimal of width at least w: the "02d" format, %m, %d, %H, %M, %Y
Pad(n, w) ==
    IF n >= Pow10(w) THEN Dec(n)
    ELSE [i \in 1..w |-> DigitChars[((n \div Pow10(w - i)) % 10) + 1]]

\* now.strftime("%Y-%m-%d")
IsoDate(dt) == Pad(dt.year, 4) \o <<"-">> \o Pad(dt.month, 2) \o <<"-">> \o Pad(dt.day, 2)

\* now.strftime("%H:%M")
ShortTime(dt) == Pad(dt.hour, 2) \o <<":">> \o Pad(dt.minute, 2)

\* now.strftime("%Y%m%d_%H%M")
Timestamp(dt) ==
    Pad(dt.year, 4) \o Pad(dt.month, 2) \o Pad(dt.day, 2) \o <<"_">>
    \o Pad(dt.hour, 2) \o Pad(dt.minute, 2)

\* now.isoformat(): the microseconds are printed only when they are not zero
IsoFormat(dt) ==
    IsoDate(dt) \o <<"T">> \o ShortTime(dt) \o <<":">> \o Pad(dt.second, 2)
    \o (IF dt.microsecond = 0 THEN <<>> ELSE <<".">> \o Pad(dt.microsecond, 6))

-----------------------------------------------------------------------------
(* Output configuration per intent.  A template is a sequence of parts: a  *)
(* literal [lit |-> chars] or a placeholder [field |-> name, spec |-> s].  *)

Lit(chars) == [lit |-> chars]
Field(name) == [field |-> name, spec |-> ""]
FieldInt(name) == [field |-> name, spec |-> "d"]
Field02d(name) == [field |-> name, spec |-> "02d"]

CreateTemplate(emoji) ==
    << Lit(<<"#", " ">> \o emoji \o <<" ">>), Field("title"),
       Lit(<<"\n", "\n", "E","r","s","t","e","l","l","t", ":", " ">>), Field("datetime"),
       Lit(<<"\n", "\n", "-", "-", "-", "\n", "\n">>), Field("text"), Lit(<<"\n">>) >>

Md == <<".", "m", "d">>

OUTPUT_CONFIG ==
    [ journal |->
        [ folder   |-> << <<Lit(<<"1"," ","U+1F5D3","U+FE0F"," ","J","o","u","r","n","a","l","s">>)>>,
                          <<FieldInt("year")>>, <<Field02d("month")>> >>,
          filename |-> <<Field("date"), Lit(Md)>>,
          mode     |-> "append",
          template |-> << Lit(<<"\n", "#", "#", " ">>), Field("time"),
                          Lit(<<" ", "U", "h", "r", "\n", "\n">>), Field("text"), Lit(<<"\n">>) >>,
          emoji    |-> <<"U+1F4DD">> ],
      ideen |->
        [ folder   |-> << <<Lit(<<"2"," ","U+1F4A1"," ","I","d","e","e","n">>)>> >>,
          filename |-> <<Field("timestamp"), Lit(<<"_">>), Field("title"), Lit(Md)>>,
          mode     |-> "create",
          template |-> CreateTemplate(<<"U+1F4A1">>),
          emoji    |-> <<"U+1F4A1">> ],
      reflexion |->
        [ folder   |-> << <<Lit(<<"3"," ","U+1F914"," ","R","e","f","l","e","x","i","o","n","e","n">>)>> >>,
          filename |-> <<Field("date"), Lit(<<"_">>), Field("title"), Lit(Md)>>,
          mode     |-> "create",
          template |-> CreateTemplate(<<"U+1F914">>),
          emoji    |-> <<"U+1F914">> ],
      info |->
        [ folder   |-> << <<Lit(<<"4"," ","U+1F4DD"," ","N","o","t","i","z","e","n">>)>> >>,
          filename |-> <<Field("timestamp"), Lit(<<"_">>), Field("title"), Lit(Md)>>,
          mode     |-> "create",
          template |-> CreateTemplate(<<"U+1F4DD">>),
          emoji    |-> <<"U+1F4DD">> ] ]

\* the intent label as a str, for intent.capitalize()
IntentChars ==
    [ journal   |-> <<"j","o","u","r","n","a","l">>,
      ideen     |-> <<"i","d","e","e","n">>,
      reflexion |-> <<"r","e","f","l","e","x","i","o","n">>,
      info      |-> <<"i","n","f","o">> ]

\* one replacement field of str.format: an int ("d": {year}, "02d": {month:02d})
\* or a str, which is inserted as it is
FormatValue(v, spec) ==
    IF spec = "02d" THEN Pad(v, 2) ELSE IF spec = "d" THEN Dec(v) ELSE v

\* template.format(**values)
format(template, values) ==
    Flatten([i \in DOMAIN template |->
                IF "lit" \in DOMAIN template[i] THEN template[i].lit
                ELSE FormatValue(values[template[i].field], template[i].spec)])

-----------------------------------------------------------------------------
(* The note writer.                                                        *)

\* Path.mkdir(parents=True, exist_ok=True): the folder and its missing ancestors
Ancestors(path) == {SubSeq(path, 1, k) : k \in 1..Len(path)}

\* where an I/O error is raised inside _write_to_obsidian: nowhere, in
\* folder.mkdir (line 157), or in the write to the opened file (lines 180, 182)
FailPoints == {"none", "mkdir", "write"}

\* faulty variant: the append branch truncates like the create branch
PersistTruncating(fs, path, content, mode, fail) ==
    IF fail = "write" THEN [p \in DOMAIN fs \cup {path} |-> IF p = path THEN <<>> ELSE fs[p]]
    ELSE [p \in DOMAIN fs \cup {path} |-> IF p = path THEN content ELSE fs[p]]

\* lines 178-182: open(path, "a") + f.write(content), or path.write_text(content).
\* Once the file is open it exists (mode "a" keeps what it held, mode "w" has
\* truncated it); a write that raises (fail = "write") adds nothing to it.
Persist(fs, path, content, mode, fail) ==
    LET old    == IF path \in DOMAIN fs THEN fs[path] ELSE <<>>
        opened == IF mode = "append" THEN old ELSE <<>>
    IN  IF fail = "write"
        THEN [p \in DOMAIN fs \cup {path} |-> IF p = path THEN opened ELSE fs[p]]
        ELSE [p \in DOMAIN fs \cup {path} |-> IF p = path THEN opened \o content ELSE fs[p]]

\* config["folder"].format(year=now.year, month=now.month) under the root
FolderOf(root, config, now) ==
    root \o [i \in DOMAIN config.folder |->
                format(config.folder[i], [year |-> now.year, month |-> now.month])]

\* lines 157 and 177-184: mkdir, then the write; the record is what the call leaves
\* in the file system, the path it resolved and whether it raised
WriteTo(ds, fs, folder, path, content, mode, fail) ==
    [ dirs    |-> IF fail = "mkdir" THEN ds ELSE ds \cup Ancestors(folder),
      files   |-> IF fail = "mkdir" THEN fs ELSE Persist(fs, path, content, mode, fail),
      path    |-> path,
      content |-> content,
      mode    |-> mode,
      raised  |-> fail # "none" ]

\* line 165: path = folder / filename
WriteIn(ds, fs, folder, filename, content, mode, fail) ==
    WriteTo(ds, fs, folder, Append(folder, filename), content, mode, fail)

\* lines 152-175: folder, filename and content from the templates of the profile
WriteAt(ds, fs, root, config, text, title, now, fail) ==
    WriteIn(ds, fs, FolderOf(root, config, now),
            format(config.filename,
                   [date |-> IsoDate(now), timestamp |-> Timestamp(now), title |-> title]),
            format(config.template,
                   [text |-> text, title |-> title, time |-> ShortTime(now),
                    date |-> IsoDate(now), datetime |-> IsoFormat(now),
                    timestamp |-> Timestamp(now)]),
            config.mode, fail)

\* lines 148-150: now, config, title
_write_to_obsidian(ds, fs, root, cutoff, text, intent, clock, fail) ==
    WriteAt(ds, fs, root, OUTPUT_CONFIG[intent], text, _safe_title(text),
            _effective_date(clock, cutoff), fail)

-----------------------------------------------------------------------------
(* The inbox pipeline and the dispatcher.                                  *)

\* "no OutboundMessage": the None a handler returns
NoMessage == [channel |-> "None", chat_id |-> "None", content |-> <<>>]

OutboundMessage(channel, chat_id, content) ==
    [channel |-> channel, chat_id |-> chat_id, content |-> content]

Gespeichert == <<" ","g","e","s","p","e","i","c","h","e","r","t"," ","→"," ">>

\* the history record of one call of _write_to_obsidian
WriteRecord(t, intent, w, clock, fail) ==
    [task |-> t, intent |-> intent, path |-> w.path, content |-> w.content,
     mode |-> w.mode, raised |-> w.raised, fail |-> fail, clock |-> clock]

\* line 126: f"{emoji} {intent.capitalize()} gespeichert -> {path.name}"
Reply(intent, path) ==
    OUTPUT_CONFIG[intent].emoji \o <<" ">> \o capitalize(IntentChars[intent])
    \o Gespeichert \o path[Len(path)]

\* line 128: logger.info(f"Inbox: {intent} -> {path}")
SavedLog(intent, path) == <<[event |-> "saved", intent |-> intent, path |-> path]>>

\* faulty variant: an I/O error is swallowed and reported as "no match"
AfterWriteSwallow(t, msg, intent, w, clock, fail) ==
    [dirs |-> w.dirs, files |-> w.files,
     result |-> IF w.raised THEN NoMessage
                ELSE OutboundMessage(msg.channel, msg.chat_id, Reply(intent, w.path)),
     raised |-> FALSE,
     log    |-> IF w.raised THEN <<>> ELSE SavedLog(intent, w.path),
     writes |-> <<WriteRecord(t, intent, w, clock, fail)>>]

\* faulty variant: the confirmation is built whether or not the write went through
AfterWriteOptimistic(t, msg, intent, w, clock, fail) ==
    [dirs |-> w.dirs, files |-> w.files,
     result |-> OutboundMessage(msg.channel, msg.chat_id, Reply(intent, w.path)),
     raised |-> FALSE,
     log    |-> SavedLog(intent, w.path),
     writes |-> <<WriteRecord(t, intent, w, clock, fail)>>]

\* lines 123-133 with w the outcome of the call of _write_to_obsidian: if it
\* raised, nothing after line 123 runs and the exception leaves _process_inbox
AfterWrite(t, msg, intent, w, clock, fail) ==
    [dirs |-> w.dirs, files |-> w.files,
     result |-> IF w.raised THEN NoMessage
                ELSE OutboundMessage(msg.channel, msg.chat_id, Reply(intent, w.path)),
     raised |-> w.raised,
     log    |-> IF w.raised THEN <<>> ELSE SavedLog(intent, w.path),
     writes |-> <<WriteRecord(t, intent, w, clock, fail)>>]

\* faulty variant: a text that matches nothing is filed under the unused "info" profile
InboxForInfo(ds, fs, root, cutoff, t, msg, intent, clock, fail) ==
    AfterWrite(t, msg, IF intent = None THEN "info" ELSE intent,
               _write_to_obsidian(ds, fs, root, cutoff, msg.content,
                                  IF intent = None THEN "info" ELSE intent, clock, fail),
               clock, fail)

\* lines 120-133 with intent the result of the classification
InboxFor(ds, fs, root, cutoff, t, msg, intent, clock, fail) ==
    IF intent = None
    THEN [dirs |-> ds, files |-> fs, result |-> NoMessage, raised |-> FALSE,
          log |-> <<>>, writes |-> <<>>]
    ELSE AfterWrite(t, msg, intent,
                    _write_to_obsidian(ds, fs, root, cutoff, msg.content, intent, clock, fail),
                    clock, fail)

\* The whole of _process_inbox for the message of task t: what it leaves in the
\* file system, what it returns or that it raised, and what it logged.
_process_inbox(ds, fs, root, cutoff, t, msg, clock, fail) ==
    InboxFor(ds, fs, root, cutoff, t, msg, _classify(msg.content), clock, fail)

-----------------------------------------------------------------------------
(* Inputs of the dispatcher specification.                                 *)

MaxTasks == 2

DefaultCutoff == 4

Root == << <<"O","b","s","i","d","i","a","n">> >>

T_heute == <<"H","e","u","t","e"," ","w","a","r">>
T_tag   == <<"T","a","g"," ","2">>
T_idee1 == <<"I","d","e","e",":"," ","A","\n","x">>
T_idee2 == <<"I","d","e","e"," ","A","\n","y">>
T_hallo == <<"h","a","l","l","o">>

InboundMessage(channel, chat_id, content) ==
    [channel |-> channel, chat_id |-> chat_id, content |-> content]

\* the messages a channel may deliver, each with the session key of its call
Inbound ==
    { [msg |-> InboundMessage("telegram", "42", T_heute), session_key |-> None],
      [msg |-> InboundMessage("telegram", "42", T_tag), session_key |-> "s1"],
      [msg |-> InboundMessage("telegram", "42", T_idee1), session_key |-> "s1"],
      [msg |-> InboundMessage("telegram", "42", T_idee2), session_key |-> None],
      [msg |-> InboundMessage("telegram", "42", T_hallo), session_key |-> "s1"],
      [msg |-> InboundMessage("telegram", "99", T_heute), session_key |-> "s1"] }

DateTime(y, mo, d, h, mi, s, us) ==
    [year |-> y, month |-> mo, day |-> d, hour |-> h, minute |-> mi,
     second |-> s, microsecond |-> us]

\* the values datetime.now() takes: an evening, and a night before the cutoff
Clocks == { DateTime(2024, 3, 15, 20, 0, 0, 0), DateTime(2024, 3, 1, 2, 30, 5, 123456) }

InboxConfigs == { {"42"}, {} }

EmptyFiles == [p \in {} |-> <<>>]

\* a journal file of 2024-03-15 that a vault may hold before the agent is built
OldNote == <<"a","l","t","\n">>
OldPath == Append(FolderOf(Root, OUTPUT_CONFIG["journal"], DateTime(2024, 3, 15, 0, 0, 0, 0)),
                  <<"2","0","2","4","-","0","3","-","1","5">> \o Md)
Vaults == { [p \in {OldPath} |-> OldNote] }

Parent(path) == SubSeq(path, 1, Len(path) - 1)

\* what the base agent may answer to a message: a reply or None
BaseAgentResults(msg) ==
    { NoMessage, OutboundMessage(msg.channel, msg.chat_id, <<"o","k">>) }

Unset == [done |-> FALSE]

-----------------------------------------------------------------------------
(* The dispatcher specification: messages arrive, each is handled by its   *)
(* own asynchronous task; tasks interleave only where one awaits the base  *)
(* agent, the single suspension point of _process_message.                 *)

Init ==
    /\ inbox_chat_ids \in InboxConfigs
    /\ obsidian_root = Root
    /\ day_cutoff_hour = DefaultCutoff
    /\ files0 \in Vaults
    /\ files = files0
    /\ dirs = UNION {Ancestors(Parent(p)) : p \in DOMAIN files0}
    /\ log = <<[event |-> "enabled", chats |-> Cardinality(inbox_chat_ids),
                root |-> obsidian_root, cutoff |-> day_cutoff_hour]>>
    /\ tasks = <<>>
    /\ baseCalls = <<>>
    /\ writes = <<>>
    /\ arg = Unset
    /\ ret = Unset

\* the agent loop creates a task for an inbound message
Submit ==
    /\ Len(tasks) < MaxTasks
    /\ \E m \in Inbound :
          tasks' = Append(tasks, [msg |-> m.msg, session_key |-> m.session_key,
                                  pc |-> "ready", result |-> NoMessage])
    /\ UNCHANGED <<inbox_chat_ids, obsidian_root, day_cutoff_hour, dirs, files, log,
                   baseCalls, writes, files0, arg, ret>>

\* faulty variant: every chat is treated as an inbox chat
IsInboxChatAny(chat_id, ids) == TRUE

\* line 103: msg.chat_id in self.inbox_chat_ids
IsInboxChat(chat_id, ids) == chat_id \in ids

\* msg.content[:50] in the "no pattern match" log line
LogCut == 50

\* faulty variant: the fall-through to the base agent is not logged
NoMatchLogNothing(msg) == <<>>

\* lines 108-111: the "no pattern match ... delegating to LLM" line
NoMatchLog(msg) == <<[event |-> "no_match", content |-> Take(msg.content, LogCut)]>>

\* the call super()._process_message(msg, session_key), not yet answered
BaseCall(t, msg, session_key) ==
    <<[task |-> t, msg |-> msg, session_key |-> session_key,
       returned |-> FALSE, value |-> NoMessage]>>

\* lines 104-113 with r the outcome of _process_inbox
AfterInbox(t, msg, session_key, r) ==
    IF r.raised
    THEN [dirs |-> r.dirs, files |-> r.files, writes |-> r.writes, log |-> r.log,
          calls |-> <<>>, pc |-> "raised", result |-> NoMessage]
    ELSE IF r.result # NoMessage
    THEN [dirs |-> r.dirs, files |-> r.files, writes |-> r.writes, log |-> r.log,
          calls |-> <<>>, pc |-> "done", result |-> r.result]
    ELSE [dirs |-> r.dirs, files |-> r.files, writes |-> r.writes,
          log |-> r.log \o NoMatchLog(msg),
          calls |-> BaseCall(t, msg, session_key), pc |-> "base", result |-> NoMessage]

\* Lines 103-113 up to the suspension point: the branch taken for the message
\* of task t and what it leaves behind.  pc is where the task stands after it:
\* "done" (the confirmation is returned), "raised" (the I/O error leaves
\* _process_message) or "base" (suspended in the call of the base agent).
Dispatch(ids, ds, fs, root, cutoff, t, msg, session_key, clock, fail) ==
    IF ~IsInboxChat(msg.chat_id, ids)
    THEN [dirs |-> ds, files |-> fs, writes |-> <<>>, log |-> <<>>,
          calls |-> BaseCall(t, msg, session_key), pc |-> "base", result |-> NoMessage]
    ELSE AfterInbox(t, msg, session_key,
                    _process_inbox(ds, fs, root, cutoff, t, msg, clock, fail))

\* Task t runs _process_message from its start to its first suspension point:
\* _process_inbox and everything it calls hold no await, so the classification
\* and the write are one step.
_process_message(t) ==
    /\ tasks[t].pc = "ready"
    /\ \E clock \in Clocks, fail \in FailPoints :
          \E o \in {Dispatch(inbox_chat_ids, dirs, files, obsidian_root, day_cutoff_hour,
                             t, tasks[t].msg, tasks[t].session_key, clock, fail)} :
              /\ dirs' = o.dirs
              /\ files' = o.files
              /\ writes' = writes \o o.writes
              /\ log' = log \o o.log
              /\ baseCalls' = baseCalls \o o.calls
              /\ tasks' = [tasks EXCEPT ![t].pc = o.pc, ![t].result = o.result]
    /\ UNCHANGED <<inbox_chat_ids, obsidian_root, day_cutoff_hour, files0, arg, ret>>

\* line 113, after the suspension: the base agent answers and its answer is returned
AwaitBase(t) ==
    /\ tasks[t].pc = "base"
    /\ \E v \in BaseAgentResults(tasks[t].msg) :
          /\ baseCalls' = [k \in DOMAIN baseCalls |->
                              IF baseCalls[k].task = t
                              THEN [baseCalls[k] EXCEPT !.returned = TRUE, !.value = v]
                              ELSE baseCalls[k]]
          /\ tasks' = [tasks EXCEPT ![t].pc = "done", ![t].result = v]
    /\ UNCHANGED <<inbox_chat_ids, obsidian_root, day_cutoff_hour, dirs, files, log,
                   writes, files0, arg, ret>>

Next ==
    \/ Submit
    \/ \E t \in DOMAIN tasks : _process_message(t)
    \/ \E t \in DOMAIN tasks : AwaitBase(t)

Spec == Init /\ [][Next]_vars

-----------------------------------------------------------------------------
(* Properties of the dispatcher specification.                             *)

CallsOf(calls, t) == {k \in DOMAIN calls : calls[k].task = t}

WritesOf(t) == {k \in DOMAIN writes : writes[k].task = t}

\* some pattern of some intent matches somewhere in the lower-cased text
MatchesAny(text) ==
    \E k \in DOMAIN KEYWORD_PATTERNS :
        \E j \in DOMAIN KEYWORD_PATTERNS[k].patterns :
            re_search(KEYWORD_PATTERNS[k].patterns[j], lower(text))

\* task t leaves pc value "from" in this step
Leaves(t, from) == tasks[t].pc = from /\ tasks'[t].pc # from

\* this step delegates the message of t to the base agent and touches nothing else
DelegatesUntouched(t) ==
    /\ dirs' = dirs /\ files' = files /\ writes' = writes
    /\ baseCalls' = Append(baseCalls,
                           [task |-> t, msg |-> tasks[t].msg,
                            session_key |-> tasks[t].session_key,
                            returned |-> FALSE, value |-> NoMessage])
    /\ tasks'[t].pc = "base"

\* this step returns from _process_message what the base agent answered to t
ReturnsBaseAnswer(t) ==
    /\ tasks'[t].pc = "done"
    /\ Cardinality(CallsOf(baseCalls', t)) = 1
    /\ \A k \in CallsOf(baseCalls', t) :
          /\ baseCalls'[k].returned
          /\ baseCalls'[k].msg = tasks[t].msg
          /\ baseCalls'[k].session_key = tasks[t].session_key
          /\ tasks'[t].result = baseCalls'[k].value

\* C1: a message of a chat outside the inbox set never runs the inbox pipeline
\* (no write record, no log line, directories and files unchanged), the base
\* agent is called exactly once with the same message and session key, and what
\* it answers (None included) is what _process_message returns.
C1_NonInboxDelegates ==
    [][\A t \in DOMAIN tasks :
          tasks[t].msg.chat_id \notin inbox_chat_ids =>
             /\ Leaves(t, "ready") => DelegatesUntouched(t) /\ log' = log
             /\ Leaves(t, "base") => ReturnsBaseAnswer(t)
             /\ tasks[t].pc # "ready" =>
                   Cardinality(CallsOf(baseCalls', t)) = 1 /\ WritesOf(t) = {}]_vars

C1_Witness ==
    \E t \in DOMAIN tasks :
        /\ tasks[t].msg.chat_id \notin inbox_chat_ids
        /\ inbox_chat_ids # {}
        /\ MatchesAny(tasks[t].msg.content)
        /\ tasks[t].pc = "done"
        /\ tasks[t].result = NoMessage
        /\ writes # <<>>

\* C2: for an inbox-chat message whose text matches no pattern, _classify gives
\* None, nothing is written, the base agent is called exactly once with the
\* original message and session key and its answer is returned; and for an
\* inbox-chat message that matches a pattern the base agent is never called.
C2_NoMatchDelegates ==
    [][\A t \in DOMAIN tasks :
          tasks[t].msg.chat_id \in inbox_chat_ids =>
             IF MatchesAny(tasks[t].msg.content)
             THEN CallsOf(baseCalls', t) = {}
             ELSE /\ _classify(tasks[t].msg.content) = None
                  /\ Leaves(t, "ready") => DelegatesUntouched(t)
                  /\ Leaves(t, "base") => ReturnsBaseAnswer(t)
                  /\ tasks[t].pc # "ready" =>
                        Cardinality(CallsOf(baseCalls', t)) = 1 /\ WritesOf(t) = {}]_vars

C2_Witness ==
    \E t, u \in DOMAIN tasks :
        /\ tasks[t].msg.chat_id \in inbox_chat_ids
        /\ ~MatchesAny(tasks[t].msg.content)
        /\ tasks[t].pc = "done"
        /\ tasks[t].result # NoMessage
        /\ tasks[t].session_key # None
        /\ tasks[u].msg.chat_id \in inbox_chat_ids
        /\ MatchesAny(tasks[u].msg.content)
        /\ tasks[u].pc = "done"

\* the rendered bodies of the writes k.. of the history that went through to path p
RECURSIVE BodiesFrom(_, _)
BodiesFrom(k, p) ==
    IF k > Len(writes) THEN <<>>
    ELSE (IF writes[k].path = p /\ ~writes[k].raised THEN writes[k].content ELSE <<>>)
         \o BodiesFrom(k + 1, p)

ContentAtStart(p) == IF p \in DOMAIN files0 THEN files0[p] ELSE <<>>

AppendPaths == {writes[k].path : k \in {j \in DOMAIN writes : writes[j].mode = "append"}}

\* C5: after any sequence of append-mode writes to one path, the file is what
\* it held before the first of them followed by every rendered body in call
\* order: nothing lost, duplicated or reordered.
C5_AppendKeepsOrder ==
    \A p \in AppendPaths :
        IF p \in DOMAIN files
        THEN files[p] = ContentAtStart(p) \o BodiesFrom(1, p)
        ELSE BodiesFrom(1, p) = <<>>

C5_Witness ==
    \E j, k \in DOMAIN writes :
        /\ j < k
        /\ writes[j].task # writes[k].task
        /\ writes[j].mode = "append" /\ ~writes[j].raised
        /\ writes[k].path = writes[j].path /\ ~writes[k].raised
        /\ writes[j].content # writes[k].content
        /\ ContentAtStart(writes[j].path) # <<>>

\* C6: a create-mode note, once written, keeps exactly that content whatever
\* is handled later (stated for histories without any I/O error).
C6_CreateWriteOnce ==
    (\A k \in DOMAIN writes : ~writes[k].raised) =>
        \A k \in DOMAIN writes :
            writes[k].mode = "create" => files[writes[k].path] = writes[k].content

\* C7: an I/O error of the write leaves _process_message as an error: the task
\* returns no confirmation, the write was attempted once, the base agent is not
\* called for the message, and what the failed call had done stays done (the
\* folder it created, the file it opened).
C7_FailurePropagates ==
    \A k \in DOMAIN writes :
        writes[k].raised =>
            /\ tasks[writes[k].task].pc = "raised"
            /\ tasks[writes[k].task].result = NoMessage
            /\ WritesOf(writes[k].task) = {k}
            /\ CallsOf(baseCalls, writes[k].task) = {}
            /\ writes[k].fail # "mkdir" =>
                   /\ Ancestors(Parent(writes[k].path)) \subseteq dirs
                   /\ writes[k].path \in DOMAIN files

C7_Witness ==
    \E k \in DOMAIN writes :
        /\ writes[k].raised
        /\ writes[k].fail = "write"
        /\ writes[k].mode = "create"
        /\ Parent(writes[k].path) \in dirs
        /\ files[writes[k].path] = <<>>
        /\ tasks[writes[k].task].pc = "raised"

InboxNoMatch(t) ==
    tasks[t].msg.chat_id \in inbox_chat_ids /\ ~MatchesAny(tasks[t].msg.content)

LogOf(event) == SelectSeq(log, LAMBDA e : e.event = event)

GoodWrites == SelectSeq(writes, LAMBDA w : ~w.raised)

\* C9 as stated: every handled message (delegated or classified) has a log
\* entry that holds its chat id.
C9_EveryHandledLogged ==
    \A t \in DOMAIN tasks :
        tasks[t].pc \in {"base", "done"} =>
            \E k \in DOMAIN log :
                "chat_id" \in DOMAIN log[k] /\ log[k].chat_id = tasks[t].msg.chat_id

\* C9 amended: after the constructor's line, the log holds one "no match" line
\* per inbox message that fell through to the base agent, with the first 50
\* characters of its text, and one line per write that went through, with the
\* intent and the destination path, in call order; a delegation of a non-inbox
\* chat, and a failed write, leave no line, and no line holds the chat id.
C9_LogLines ==
    /\ Len(log) = 1 + Len(LogOf("no_match")) + Len(LogOf("saved"))
    /\ log[1].event = "enabled"
    /\ Len(LogOf("no_match")) =
          Cardinality({t \in DOMAIN tasks : InboxNoMatch(t) /\ tasks[t].pc # "ready"})
    /\ \A t \in DOMAIN tasks :
          InboxNoMatch(t) /\ tasks[t].pc # "ready" =>
             \E k \in DOMAIN log :
                log[k] = [event |-> "no_match", content |-> Take(tasks[t].msg.content, LogCut)]
    /\ Len(LogOf("saved")) = Len(GoodWrites)
    /\ \A k \in DOMAIN GoodWrites :
          LogOf("saved")[k] = [event |-> "saved", intent |-> GoodWrites[k].intent,
                               path |-> GoodWrites[k].path]
    /\ \A k \in DOMAIN log : "chat_id" \notin DOMAIN log[k]

C9_Witness ==
    \E t, u \in DOMAIN tasks :
        /\ tasks[t].msg.chat_id \notin inbox_chat_ids /\ tasks[t].pc = "done"
        /\ InboxNoMatch(u) /\ tasks[u].pc = "done"
        /\ Len(log) = 2

\* the message of task t was confirmed: _process_message returned the reply
\* of _process_inbox
Confirmed(t) ==
    /\ tasks[t].msg.chat_id \in inbox_chat_ids
    /\ MatchesAny(tasks[t].msg.content)
    /\ tasks[t].pc = "done"
    /\ tasks[t].result # NoMessage

RECURSIVE ConfirmedBodiesFrom(_, _)
ConfirmedBodiesFrom(k, p) ==
    IF k > Len(writes) THEN <<>>
    ELSE (IF writes[k].path = p /\ Confirmed(writes[k].task) THEN writes[k].content ELSE <<>>)
         \o ConfirmedBodiesFrom(k + 1, p)

\* C10: with the tasks of several messages interleaving at their suspension
\* points, an append-mode file is always what it held at the start followed by
\* whole rendered bodies, one per confirmed message and in the order of the
\* writes, and a message is confirmed only when its one write has gone through
\* (for an append-mode write, with its body in the file it names).
C10_WholeBodies ==
    /\ \A p \in AppendPaths :
          p \in DOMAIN files => files[p] = ContentAtStart(p) \o ConfirmedBodiesFrom(1, p)
    /\ \A t \in DOMAIN tasks :
          (tasks[t].pc = "done" /\ CallsOf(baseCalls, t) = {}) =>
             /\ Cardinality(WritesOf(t)) = 1
             /\ \A k \in WritesOf(t) :
                   /\ ~writes[k].raised
                   /\ writes[k].path \in DOMAIN files
                   /\ tasks[t].result.content =
                         Reply(writes[k].intent, writes[k].path)
                   /\ writes[k].mode = "append" =>
                         \E i \in 0..(Len(files[writes[k].path]) - Len(writes[k].content)) :
                            SubSeq(files[writes[k].path], i + 1, i + Len(writes[k].content))
                               = writes[k].content

\* two tasks were pending at once, the later-created one wrote first, and both
\* are confirmed for the same journal file
C10_Witness ==
    \E j, k \in DOMAIN writes :
        /\ j < k
        /\ writes[j].task > writes[k].task
        /\ writes[j].mode = "append"
        /\ writes[j].path = writes[k].path
        /\ Confirmed(writes[j].task) /\ Confirmed(writes[k].task)

-----------------------------------------------------------------------------
(* Specifications of the pure helpers: the input is drawn in the initial   *)
(* state and one action applies the helper to it.                          *)

IdleDispatcher ==
    /\ inbox_chat_ids = {}
    /\ obsidian_root = Root
    /\ day_cutoff_hour = DefaultCutoff
    /\ dirs = {}
    /\ files = EmptyFiles
    /\ log = <<>>
    /\ tasks = <<>>
    /\ baseCalls = <<>>
    /\ writes = <<>>
    /\ files0 = EmptyFiles

\* all sequences of at most n elements of S
SeqsUpTo(S, n) == UNION {[1..k -> S] : k \in 0..n}

(* ---- _classify ---- *)

MaxPieces == 3

\* words, keywords (some upper-cased), keyword fragments and separators
Pieces ==
    { <<"H","e","u","t","e">>, <<"w","a","r">>, <<"u","m">>, <<"x">>, <<" ">>, <<"_">>,
      <<"I","d","e","e">>, <<"w","a","s">>, <<"W","Ä","R","E">>,
      <<"f","r","a","g","e">>, <<"m","i","c","h">>, <<"!">>, <<"\n">> }

ClassifyInputs == {Flatten(ps) : ps \in SeqsUpTo(Pieces, MaxPieces)}

InitClassify == IdleDispatcher /\ arg \in ClassifyInputs /\ ret = Unset

Classify ==
    /\ ret = Unset
    /\ ret' = [done |-> TRUE, intent |-> _classify(arg)]
    /\ UNCHANGED <<mainVars, arg>>

SpecClassify == InitClassify /\ [][Classify]_vars

\* the positions in the table of the intents with a pattern matching the text
MatchedIntents(text) ==
    {k \in DOMAIN KEYWORD_PATTERNS :
        \E j \in DOMAIN KEYWORD_PATTERNS[k].patterns :
            re_search(KEYWORD_PATTERNS[k].patterns[j], lower(text))}

Least(S) == CHOOSE k \in S : \A j \in S : k <= j

\* C3: the intents are declared in the order journal, ideen, reflexion, and
\* _classify returns the earliest-declared intent that has a pattern matching
\* anywhere in the lower-cased text, and None exactly when no pattern matches.
C3_FirstDeclaredWins ==
    /\ [k \in DOMAIN KEYWORD_PATTERNS |-> KEYWORD_PATTERNS[k].intent]
          = <<"journal", "ideen", "reflexion">>
    /\ ret.done =>
          /\ ret.intent = None <=> MatchedIntents(arg) = {}
          /\ MatchedIntents(arg) # {} =>
                ret.intent = KEYWORD_PATTERNS[Least(MatchedIntents(arg))].intent

\* a text with an ideen keyword followed by a journal keyword is a journal entry
C3_Witness ==
    /\ ret.done
    /\ {1, 2} \subseteq MatchedIntents(arg)
    /\ lower(Take(arg, 4)) = <<"i","d","e","e">>
    /\ ret.intent = "journal"

(* ---- _safe_title ---- *)

MaxTail == 3

Rep(c, n) == [i \in 1..n |-> c]

\* lengths around the two cuts
RunLengths ==
    {0, 1, TitleCut - 2, TitleCut - 1, TitleCut, FirstLineCut - 1, FirstLineCut,
     FirstLineCut + 1}

TailChars == {"a", " ", "!", "\n", "-", "_"}

\* optional leading blank and punctuation, a run of letters, a short tail
TitleInputs ==
    {lead \o Rep("a", n) \o tail :
        lead \in {<<>>, <<" ", "!">>}, n \in RunLengths, tail \in SeqsUpTo(TailChars, MaxTail)}

InitTitle == IdleDispatcher /\ arg \in TitleInputs /\ ret = Unset

DeriveTitle ==
    /\ ret = Unset
    /\ ret' = [done |-> TRUE, once |-> _safe_title(arg),
               twice |-> _safe_title(_safe_title(arg))]
    /\ UNCHANGED <<mainVars, arg>>

SpecTitle == InitTitle /\ [][DeriveTitle]_vars

\* C8: deriving the title of a title gives the same title.
C8_Idempotent == ret.done => ret.twice = ret.once

(* ---- _effective_date within _write_to_obsidian ---- *)

Years == {1900, 2000, 2023, 2024}
Hours == {0, 3, 4, 5, 23}
Cutoffs == {0, 4, 5, 24}

DateInputs ==
    {[clock |-> DateTime(y, mo, d, h, 7, 5, 0), cutoff |-> c, intent |-> i, text |-> T_idee1] :
        y \in Years, mo \in 1..12, d \in {1, 2, 15, 28},
        h \in Hours, c \in Cutoffs, i \in {"journal", "ideen", "reflexion"}}
    \cup
    {[clock |-> DateTime(y, mo, _days_in_month(y, mo), h, 7, 5, 0), cutoff |-> DefaultCutoff,
      intent |-> "journal", text |-> T_idee1] :
        y \in Years, mo \in 1..12, h \in Hours}

InitDate == IdleDispatcher /\ arg \in DateInputs /\ ret = Unset

Resolve ==
    /\ ret = Unset
    /\ ret' = [done |-> TRUE,
               w |-> _write_to_obsidian({}, EmptyFiles, Root, arg.cutoff, arg.text,
                                        arg.intent, arg.clock, "none")]
    /\ UNCHANGED <<mainVars, arg>>

SpecDate == InitDate /\ [][Resolve]_vars

\* the calendar: the last day of a month and the day before a date
LastDayOf(y, m) ==
    IF m = 2
    THEN (IF (y % 4 = 0 /\ y % 100 # 0) \/ y % 400 = 0 THEN 29 ELSE 28)
    ELSE <<31, 0, 31, 30, 31, 30, 31, 31, 30, 31, 30, 31>>[m]

DayBefore(dt) ==
    IF dt.day > 1 THEN [year |-> dt.year, month |-> dt.month, day |-> dt.day - 1]
    ELSE IF dt.month > 1
         THEN [year |-> dt.year, month |-> dt.month - 1, day |-> LastDayOf(dt.year, dt.month - 1)]
         ELSE [year |-> dt.year - 1, month |-> 12, day |-> 31]

\* the date the claim expects for a clock and a cutoff
ExpectedDate(clock, cutoff) ==
    IF clock.hour < cutoff THEN DayBefore(clock)
    ELSE [year |-> clock.year, month |-> clock.month, day |-> clock.day]

Digits4(n) == <<DigitChars[(n \div 1000) + 1], DigitChars[((n \div 100) % 10) + 1],
                DigitChars[((n \div 10) % 10) + 1], DigitChars[(n % 10) + 1]>>
Digits2(n) == <<DigitChars[((n \div 10) % 10) + 1], DigitChars[(n % 10) + 1]>>

DashedDate(d) == Digits4(d.year) \o <<"-">> \o Digits2(d.month) \o <<"-">> \o Digits2(d.day)
PackedDate(d) == Digits4(d.year) \o Digits2(d.month) \o Digits2(d.day)

\* s holds the characters of x from position i on
HasAt(s, i, x) == Len(s) >= i + Len(x) - 1 /\ SubSeq(s, i, i + Len(x) - 1) = x

FileName(path) == path[Len(path)]

\* where "Erstellt: " ends in a create-mode body: "# ", emoji, " ", title, "\n\nErstellt: "
StampAt(title) == 2 + 1 + 1 + Len(title) + 12 + 1

\* C4: the date in the folder and the file name is the previous calendar day
\* when the hour of the clock is below the cutoff and the day of the clock
\* otherwise (also across month and year ends), while the hour and the minute
\* that the file name and the body show are those of the clock.
C4_EffectiveDate ==
    ret.done =>
       LET d   == ExpectedDate(arg.clock, arg.cutoff)
           hm  == Digits2(arg.clock.hour) \o Digits2(arg.clock.minute)
           h_m == Digits2(arg.clock.hour) \o <<":">> \o Digits2(arg.clock.minute)
           w   == ret.w
       IN  CASE arg.intent = "journal" ->
                  /\ w.path = Root \o << <<"1"," ","U+1F5D3","U+FE0F"," ","J","o","u","r","n","a","l","s">>,
                                         Digits4(d.year), Digits2(d.month),
                                         DashedDate(d) \o <<".","m","d">> >>
                  /\ HasAt(w.content, 1, <<"\n","#","#"," ">> \o h_m \o <<" ","U","h","r">>)
             [] arg.intent = "ideen" ->
                  /\ Len(w.path) = Len(Root) + 2
                  /\ HasAt(FileName(w.path), 1, PackedDate(d) \o <<"_">> \o hm \o <<"_">>)
                  /\ HasAt(w.content, StampAt(_safe_title(arg.text)),
                           DashedDate(d) \o <<"T">> \o h_m \o <<":">>)
             [] arg.intent = "reflexion" ->
                  /\ Len(w.path) = Len(Root) + 2
                  /\ HasAt(FileName(w.path), 1, DashedDate(d) \o <<"_">>)
                  /\ HasAt(w.content, StampAt(_safe_title(arg.text)),
                           DashedDate(d) \o <<"T">> \o h_m \o <<":">>)

\* New Year's night before the cutoff: the entry goes to December of the year before
C4_Witness ==
    /\ ret.done
    /\ arg.intent = "journal"
    /\ arg.clock.month = 1 /\ arg.clock.day = 1 /\ arg.clock.year = 2024
    /\ arg.clock.hour < arg.cutoff
    /\ ret.w.path[Len(Root) + 2] = <<"2","0","2","3">>
    /\ ret.w.path[Len(Root) + 3] = <<"1","2">>

====
